---- MODULE Spec2Model ----
(***************************************************************************)
(* CycleGAN training orchestration: the CycleGANModel class of             *)
(* src/models/cyclegan.py (construction, checkpoint save and restore, the  *)
(* training iteration, test, the learning-rate schedule), the option       *)
(* parser of src/utils/options.py, and the train() loop of the script      *)
(* src/cyclegan.py.                                                        *)
(*                                                                         *)
(* Abstractions.  A network's parameter set is identified by the number    *)
(* of optimizer updates it has received (0 = freshly initialized); an      *)
(* optimizer's accumulators likewise.  An image batch is one pixel, an     *)
(* integer.  The learning rate is an exact rational <<num, den>>.          *)
(***************************************************************************)
EXTENDS Integers, Sequences, FiniteSets, TLC

\* ------------------------------------------------------------------ bounds
MaxRuns == 2      \* processes started one after the other on one save_dir
MaxIters == 2     \* optimize_parameters calls allowed before the step cap
MaxBatches == 1   \* batches an input iterator delivers before it is exhausted
MaxBpe == 2       \* largest batches_per_epoch handed to update_learning_rate
MaxLRIters == 202 \* training iterations covered by the schedule check
MaxEpochs == 2    \* largest epochs argument of the script's train()
MaxScriptBatches == 3 \* batches an iterator of the script's train() delivers

\* ------------------------------------------------------- program constants
DefaultNiter == 100       \* --niter default
DefaultNiterDecay == 100  \* --niter_decay default
DefaultCycLambda == 10    \* --cyc_lambda default
UpdatesPerBatch == 3      \* "/ 3 because there are 3 gradient updates per batch"
ScriptBufferSize == 50    \* ImageHistoryBuffer(50, ...) of the script

\* ------------------------------------------------------------- rationals
RECURSIVE GCD(_, _)
GCD(a, b) == IF b = 0 THEN a ELSE GCD(b, a % b)

Abs(x) == IF x < 0 THEN -x ELSE x

Max(a, b) == IF a >= b THEN a ELSE b

\* n/d in lowest terms, d > 0 required
Rat(n, d) ==
    LET g == GCD(Abs(n), d)
    IN  IF n = 0 THEN <<0, 1>> ELSE <<n \div g, d \div g>>

RatMul(x, y) == Rat(x[1] * y[1], x[2] * y[2])

RatLeq(x, y) == x[1] * y[2] <= y[1] * x[2]

\* the initial learning rate 0.0002 = 1/5000 (--lr default)
DefaultLr == <<1, 5000>>

NoRate == <<-1, 1>>

\* --------------------------------------------------------- command lines
\* A command line as the values argparse will see; identity_lambda is kept
\* in tenths (5 = the default 0.5) so that loss arithmetic stays integral.
BaseArgv ==
    [training |-> TRUE, load_checkpoint |-> TRUE, lr |-> DefaultLr,
     niter |-> 1, niter_decay |-> 1, gan_mode |-> "lsgan",
     buffer_size |-> 1, cyc_lambda |-> DefaultCycLambda,
     identity_lambda |-> 5, ngf |-> 1, ndf |-> 1]

TrainArgv ==
    { BaseArgv,
      [BaseArgv EXCEPT !.load_checkpoint = FALSE],
      [BaseArgv EXCEPT !.gan_mode = "wgangp"],
      [BaseArgv EXCEPT !.gan_mode = "bogus"],
      [BaseArgv EXCEPT !.identity_lambda = 0],
      [BaseArgv EXCEPT !.ngf = 2],
      [BaseArgv EXCEPT !.ndf = 2],
      [BaseArgv EXCEPT !.niter = 0],
      [BaseArgv EXCEPT !.niter_decay = -1],
      [BaseArgv EXCEPT !.buffer_size = 0] }

\* test.py's command line: the training-only options do not exist
TestBase ==
    [training |-> FALSE, load_checkpoint |-> FALSE, lr |-> NoRate,
     niter |-> -1, niter_decay |-> -1, gan_mode |-> "absent",
     buffer_size |-> -1, cyc_lambda |-> -1,
     identity_lambda |-> -1, ngf |-> 1, ndf |-> 1]

TestArgv == { TestBase, [TestBase EXCEPT !.ngf = 2], [TestBase EXCEPT !.ndf = 2] }

ArgvSet == TrainArgv \cup TestArgv

SupportedGanModes == {"vanilla", "lsgan", "wgangp"}

\* the configurations section 7 of the design calls invalid
InvalidConfig(o) ==
    /\ o.training
    /\ \/ o.gan_mode \notin SupportedGanModes
       \/ o.buffer_size <= 0
       \/ o.niter <= 0
       \/ o.niter_decay <= 0

\* ------------------------------------------------------------------ state
VARIABLES
    run,            \* number of the running process
    pc,             \* where the process is
    op,             \* the operation that acted last
    err,            \* the exception it raised, or "none"
    log,            \* what it printed, or "none"
    argv,           \* the command line of this process
    opt,            \* the parsed options
    disk,           \* the latest checkpoint in save_dir/checkpoints
    objs,           \* attributes of the model constructed so far
    tracked,        \* names the tf.train.Checkpoint object tracks
    net,            \* parameters of the four networks
    optim,          \* state of gen_optim and disc_optim
    learning_rate,  \* the learning-rate variable
    global_step,    \* the global step variable
    trainable,      \* layer.trainable of the two discriminators
    buf,            \* the two image history buffers
    input,          \* batches left in the two input iterators
    data,           \* dataA, dataB and the forward outputs
    loss,           \* the loss attributes
    ret,            \* what test() returned
    step0,          \* global step when optimize_parameters was entered
    bpe,            \* batches_per_epoch of the last update_learning_rate
    saved,          \* the model as it was at the last save_model
    lr_t,           \* the rate the latest apply_gradients read
    queried,        \* the history-buffer queries of the latest step
    t_pc,           \* script train(): position
    t_epoch,        \* script train(): epoch
    t_step,         \* script train(): train_step
    t_input,        \* script train(): batches left in the two iterators
    t_global_step,  \* script train(): the global step
    t_net,          \* script train(): parameters of the four networks
    t_optim,        \* script train(): state of the four optimizers
    t_buf,          \* script train(): the two image history buffers
    t_ckpt,         \* script train(): the latest checkpoint of its directory
    t_saved,        \* script train(): checkpoints written
    t_log,          \* script train(): "Error, run out of data" reports
    t_args          \* script train(): epochs and batches_per_epoch

mvars == <<run, pc, op, err, log, argv, opt, disk, objs, tracked, net, optim,
           learning_rate, global_step, trainable, buf, input, data, loss,
           ret, step0, bpe, saved, lr_t, queried>>

tvars == <<t_pc, t_epoch, t_step, t_input, t_global_step, t_net, t_optim,
           t_buf, t_ckpt, t_saved, t_log, t_args>>

vars == <<mvars, tvars>>

\* --------------------------------------------------- external collaborators
\* models/networks.py: a network is a function of its parameters and its
\* input.  id tells the four instances apart (their parameters are drawn
\* independently), p is the parameter version, x the input batch.
NetId(name) ==
    CASE name = "genA2B" -> 0
      [] name = "genB2A" -> 1
      [] name = "discA" -> 2
      [] name = "discB" -> 3

Generator(name, p, x) == 400 * x + 4 * p + NetId(name) + 400

\* a discriminator's patch score, kept in 0..2
Discriminator(name, p, x) == (x + p + NetId(name)) % 3

\* models/losses.py on one-pixel batches
cycle_loss(real, reconstructed) == Abs(real - reconstructed)

identity_loss(real, same) == Abs(real - same)

generator_loss(pred_real, pred_fake, gan_mode) ==
    IF gan_mode = "wgangp" THEN 0 - pred_fake
    ELSE (pred_fake - 1) * (pred_fake - 1)

discriminator_loss(pred_real, pred_fake, gan_mode) ==
    IF gan_mode = "wgangp" THEN pred_fake - pred_real
    ELSE (pred_real - 1) * (pred_real - 1) + pred_fake * pred_fake

\* whether the loss functions accept the mode; for a mode outside the
\* documented ones both outcomes are allowed
LossModeOutcomes(gan_mode) ==
    IF gan_mode \in SupportedGanModes THEN {"ok"} ELSE {"ok", "ValueError"}

\* utils/image_history_buffer.py: query returns the fresh image or a stored
\* one, and stores the fresh image (appended below capacity, over a random
\* slot at capacity).  The set of <<returned, buffer after>> outcomes.
ImageHistoryBuffer_query(buffer, capacity, fresh) ==
    LET returned == {fresh} \cup {buffer[i] : i \in 1..Len(buffer)}
        stored ==
            IF capacity <= 0 THEN {buffer}
            ELSE IF Len(buffer) < capacity THEN {Append(buffer, fresh)}
            ELSE {[buffer EXCEPT ![i] = fresh] : i \in 1..Len(buffer)}
    IN  returned \X stored

\* the run driver (train.py / test.py) ends the epoch on an exhausted
\* source and lets every other exception end the process
DriverCatches(exc) == exc = "OutOfRangeError"

\* ------------------------------------------------------------ fresh state
NoNets == [genA2B |-> -1, genB2A |-> -1, discA |-> -1, discB |-> -1]

NoOptim == [gen_optim |-> -1, disc_optim |-> -1]

NoData ==
    [dataA |-> -1, dataB |-> -1, fakeA |-> -1, fakeB |-> -1,
     reconstructedA |-> -1, reconstructedB |-> -1]

NoCkpt ==
    [keys |-> {}, ngf |-> 0, ndf |-> 0, net |-> NoNets, optim |-> NoOptim,
     learning_rate |-> NoRate, global_step |-> -1]

NoBuffers == [discA_buffer |-> <<>>, discB_buffer |-> <<>>]

NoTrainable == [discA |-> TRUE, discB |-> TRUE]

\* no loss attribute exists yet; set names the attributes that do
NoLoss ==
    [set |-> {}, id_lossA |-> 0, id_lossB |-> 0, genA2B_loss |-> 0,
     genB2A_loss |-> 0, cyc_lossA |-> 0, cyc_lossB |-> 0, gen_loss |-> 0,
     discA_loss |-> 0, discB_loss |-> 0]

NoSaved ==
    [present |-> FALSE, training |-> FALSE, ngf |-> 0, ndf |-> 0,
     net |-> NoNets, optim |-> NoOptim, learning_rate |-> NoRate,
     global_step |-> -1]

NoScriptOptim ==
    [discA_opt |-> -1, discB_opt |-> -1, genA2B_opt |-> -1,
     genB2A_opt |-> -1]

NoScriptCkpt ==
    [present |-> FALSE, net |-> NoNets, optim |-> NoScriptOptim,
     optimizer_step |-> -1]

\* the in-memory state of a process that has just started
Boot(a) ==
    /\ pc' = "boot"
    /\ op' = "boot"
    /\ err' = "none"
    /\ log' = "none"
    /\ argv' = a
    /\ opt' = a
    /\ objs' = {}
    /\ tracked' = {}
    /\ net' = NoNets
    /\ optim' = NoOptim
    /\ learning_rate' = NoRate
    /\ global_step' = -1
    /\ trainable' = NoTrainable
    /\ buf' = NoBuffers
    /\ data' = NoData
    /\ loss' = NoLoss
    /\ ret' = <<>>
    /\ step0' = -1
    /\ bpe' = 0
    /\ lr_t' = NoRate
    /\ queried' = <<>>

TrainIdleInit ==
    /\ t_pc = "idle"
    /\ t_epoch = 0
    /\ t_step = 0
    /\ t_input = [A |-> 0, B |-> 0]
    /\ t_global_step = 0
    /\ t_net = [genA2B |-> 0, genB2A |-> 0, discA |-> 0, discB |-> 0]
    /\ t_optim = [discA_opt |-> 0, discB_opt |-> 0, genA2B_opt |-> 0,
                  genB2A_opt |-> 0]
    /\ t_buf = NoBuffers
    /\ t_ckpt = NoScriptCkpt
    /\ t_saved = 0
    /\ t_log = 0
    /\ t_args = [epochs |-> 0, batches_per_epoch |-> 0]

\* -------------------------------------------------------------- options
\* Options.parse: argparse converts each value with its type= and applies
\* no choices= and no range check, so every well-typed value comes through
parse(a) == a

\* ----------------------------------------------------------- construction
Generators == {"genA2B", "genB2A"}

Discriminators == {"discA", "discB"}

\* the attributes __init__ creates
ConstructedObjects(training) ==
    Generators \cup
    (IF training
     THEN Discriminators \cup {"learning_rate", "disc_optim", "gen_optim",
                               "global_step", "discA_buffer", "discB_buffer"}
     ELSE {})

\* mutant: the optimizers and the learning rate are left out of the checkpoint
TrackedObjects_NoOptimizers(training) ==
    IF training
    THEN {"discA", "discB", "genA2B", "genB2A", "global_step"}
    ELSE {"genA2B", "genB2A"}

\* mutant: the checkpoint is given the training objects in either mode
TrackedObjects_AnyMode(training) ==
    {"discA", "discB", "genA2B", "genB2A", "disc_optim", "gen_optim",
     "learning_rate", "global_step"}

\* initialize_checkpoint: what the tf.train.Checkpoint object is given
TrackedObjects(training) ==
    IF training
    THEN {"discA", "discB", "genA2B", "genB2A", "disc_optim", "gen_optim",
          "learning_rate", "global_step"}
    ELSE {"genA2B", "genB2A"}

\* the values the attributes hold right after they are created
FreshModel(o) ==
    IF o.training
    THEN [net |-> [genA2B |-> 0, genB2A |-> 0, discA |-> 0, discB |-> 0],
          optim |-> [gen_optim |-> 0, disc_optim |-> 0],
          learning_rate |-> o.lr,
          global_step |-> 0]
    ELSE [net |-> [genA2B |-> 0, genB2A |-> 0, discA |-> -1, discB |-> -1],
          optim |-> NoOptim,
          learning_rate |-> NoRate,
          global_step |-> -1]

\* __init__: "if not opt.training or opt.load_checkpoint"
InitRestores(o) == (~o.training) \/ o.load_checkpoint

\* mutant: latest_checkpoint is not compared with None
RestoreCondition_NoNoneCheck(o, latest) ==
    (~o.training) \/ o.load_checkpoint

\* restore_checkpoint: the condition under which the checkpoint is read
RestoreCondition(o, latest) ==
    ((~o.training) \/ o.load_checkpoint) /\ latest.keys # {}

RestoredMsg == "Checkpoint restored from"

FailedMsg == "Failed to restore checkpoint, initializing model."

SavedMsg == "Checkpoint saved at"

\* checkpoint.restore: a tracked network whose saved tensors have another
\* shape cannot be assigned
ShapeMismatch(tr, ck, o) ==
    \/ (Generators \cap tr \cap ck.keys # {}) /\ ck.ngf # o.ngf
    \/ (Discriminators \cap tr \cap ck.keys # {}) /\ ck.ndf # o.ndf

\* assert_existing_objects_matched: every tracked object found a saved value
ObjectsMatched(tr, ck) == tr \subseteq ck.keys

\* checkpoint.restore: each tracked object present in the checkpoint takes
\* its saved value, a network only when its shape fits
Restored(tr, ck, o, m) ==
    LET has(k) == k \in tr \cap ck.keys
        gen(k) == IF has(k) /\ ck.ngf = o.ngf THEN ck.net[k] ELSE m.net[k]
        dis(k) == IF has(k) /\ ck.ndf = o.ndf THEN ck.net[k] ELSE m.net[k]
    IN  [net |-> [genA2B |-> gen("genA2B"), genB2A |-> gen("genB2A"),
                  discA |-> dis("discA"), discB |-> dis("discB")],
         optim |-> [gen_optim |-> IF has("gen_optim")
                                  THEN ck.optim.gen_optim
                                  ELSE m.optim.gen_optim,
                    disc_optim |-> IF has("disc_optim")
                                   THEN ck.optim.disc_optim
                                   ELSE m.optim.disc_optim],
         learning_rate |-> IF has("learning_rate")
                           THEN ck.learning_rate ELSE m.learning_rate,
         global_step |-> IF has("global_step")
                         THEN ck.global_step ELSE m.global_step]

\* mutant: a checkpoint that does not fit is skipped like a missing one
restore_checkpoint_Lenient(o, tr, latest, m) ==
    IF RestoreCondition(o, latest) /\ ~ShapeMismatch(tr, latest, o)
                                  /\ ObjectsMatched(tr, latest)
    THEN [err |-> "none", log |-> RestoredMsg,
          m |-> Restored(tr, latest, o, m)]
    ELSE [err |-> "none", log |-> FailedMsg, m |-> m]

\* restore_checkpoint: the exception, the printed line and the model after
restore_checkpoint(o, tr, latest, m) ==
    IF RestoreCondition(o, latest)
    THEN IF ShapeMismatch(tr, latest, o)
         THEN [err |-> "ShapeMismatchError", log |-> "none",
               m |-> Restored(tr, latest, o, m)]
         ELSE IF ~ObjectsMatched(tr, latest)
         THEN [err |-> "AssertionError", log |-> "none",
               m |-> Restored(tr, latest, o, m)]
         ELSE [err |-> "none", log |-> RestoredMsg,
               m |-> Restored(tr, latest, o, m)]
    ELSE [err |-> "none", log |-> FailedMsg, m |-> m]

\* what __init__ leaves behind: the fresh model, restored when asked for
CycleGANModel_init(o, latest) ==
    LET m == FreshModel(o)
        tr == TrackedObjects(o.training)
    IN  IF InitRestores(o)
        THEN restore_checkpoint(o, tr, latest, m)
        ELSE [err |-> "none", log |-> "none", m |-> m]

\* --------------------------------------------------------------- lifecycle
\* the two input iterators the driver hands to set_input: domain B holds as
\* many batches as domain A, or one less
Sources == [A : {MaxBatches}, B : {MaxBatches - 1, MaxBatches}]

Init ==
    /\ run = 1
    /\ pc = "boot"
    /\ op = "boot"
    /\ err = "none"
    /\ log = "none"
    /\ argv \in ArgvSet
    /\ opt = argv
    /\ disk = NoCkpt
    /\ objs = {}
    /\ tracked = {}
    /\ net = NoNets
    /\ optim = NoOptim
    /\ learning_rate = NoRate
    /\ global_step = -1
    /\ trainable = NoTrainable
    /\ buf = NoBuffers
    /\ input \in Sources
    /\ data = NoData
    /\ loss = NoLoss
    /\ ret = <<>>
    /\ step0 = -1
    /\ bpe = 0
    /\ lr_t = NoRate
    /\ queried = <<>>
    /\ saved = NoSaved
    /\ TrainIdleInit

\* a later process on the same save_dir
Restart ==
    /\ pc \in {"ready", "crashed"}
    /\ run < MaxRuns
    /\ run' = run + 1
    /\ \E a \in ArgvSet : Boot(a)
    /\ input' \in Sources
    /\ UNCHANGED <<disk, saved, tvars>>

\* opt = Options().parse(training)
Parse ==
    /\ pc = "boot"
    /\ pc' = "parsed"
    /\ op' = "parse"
    /\ opt' = parse(argv)
    /\ ret' = <<>>
    /\ bpe' = 0
    /\ lr_t' = NoRate
    /\ queried' = <<>>
    /\ UNCHANGED <<run, err, log, argv, disk, objs, tracked, net, optim,
                   learning_rate, global_step, trainable, buf, input, data,
                   loss, step0, saved,
                   tvars>>

\* model = CycleGANModel(opt)
Construct ==
    /\ pc = "parsed"
    /\ LET r == CycleGANModel_init(opt, disk)
       IN  /\ pc' = IF r.err = "none" THEN "ready" ELSE "crashed"
           /\ err' = r.err
           /\ log' = r.log
           /\ net' = r.m.net
           /\ optim' = r.m.optim
           /\ learning_rate' = r.m.learning_rate
           /\ global_step' = r.m.global_step
    /\ op' = "init"
    /\ objs' = ConstructedObjects(opt.training)
    /\ tracked' = TrackedObjects(opt.training)
    /\ ret' = <<>>
    /\ bpe' = 0
    /\ lr_t' = NoRate
    /\ queried' = <<>>
    /\ UNCHANGED <<run, argv, opt, disk, trainable, buf, input, data, loss,
                   step0, saved,
                   tvars>>

\* ------------------------------------------------------------- model calls
\* how an exception leaves a model call: to the driver, or out of the process
Raised(exc) ==
    /\ err' = exc
    /\ pc' = IF DriverCatches(exc) THEN "ready" ELSE "crashed"

Returned ==
    /\ err' = "none"
    /\ pc' = "ready"

\* the batch an iterator with r batches left delivers (A odd, B even)
BatchA(r) == 2 * r - 1

BatchB(r) == 2 * r

\* set_input: dataA = input["A"].get_next(); dataB = input["B"].get_next()
set_input ==
    /\ pc = "ready"
    /\ op' = "set_input"
    /\ log' = "none"
    /\ IF input.A = 0
       THEN /\ Raised("OutOfRangeError")
            /\ UNCHANGED <<input, data>>
       ELSE IF input.B = 0
       THEN /\ Raised("OutOfRangeError")
            /\ input' = [input EXCEPT !.A = @ - 1]
            /\ data' = [data EXCEPT !.dataA = BatchA(input.A)]
       ELSE /\ Returned
            /\ input' = [A |-> input.A - 1, B |-> input.B - 1]
            /\ data' = [data EXCEPT !.dataA = BatchA(input.A),
                                    !.dataB = BatchB(input.B)]
    /\ ret' = <<>>
    /\ bpe' = 0
    /\ lr_t' = NoRate
    /\ queried' = <<>>
    /\ UNCHANGED <<run, argv, opt, disk, objs, tracked, net, optim,
                   learning_rate, global_step, trainable, buf, loss, step0,
                   saved,
                   tvars>>

\* forward: the exception and the data attributes after it
forward(n, d) ==
    IF d.dataA = -1
    THEN [err |-> "AttributeError", data |-> d]
    ELSE LET fakeB == Generator("genA2B", n.genA2B, d.dataA)
             reconstructedA == Generator("genB2A", n.genB2A, fakeB)
             d1 == [d EXCEPT !.fakeB = fakeB,
                             !.reconstructedA = reconstructedA]
         IN  IF d.dataB = -1
             THEN [err |-> "AttributeError", data |-> d1]
             ELSE LET fakeA == Generator("genB2A", n.genB2A, d.dataB)
                      reconstructedB == Generator("genA2B", n.genA2B, fakeA)
                  IN  [err |-> "none",
                       data |-> [d1 EXCEPT !.fakeA = fakeA,
                                           !.reconstructedB = reconstructedB]]

\* a direct call of forward()
Forward ==
    /\ pc = "ready"
    /\ op' = "forward"
    /\ log' = "none"
    /\ LET r == forward(net, data)
       IN  /\ data' = r.data
           /\ IF r.err = "none" THEN Returned ELSE Raised(r.err)
    /\ ret' = <<>>
    /\ bpe' = 0
    /\ lr_t' = NoRate
    /\ queried' = <<>>
    /\ UNCHANGED <<run, argv, opt, disk, objs, tracked, net, optim,
                   learning_rate, global_step, trainable, buf, input, loss,
                   step0, saved,
                   tvars>>

\* mutant: test runs the whole forward pass
test_WithForward(n, d) ==
    LET f == forward(n, d)
    IN  [err |-> f.err, data |-> f.data,
         ret |-> IF f.err = "none"
                 THEN <<d.dataA, f.data.fakeA, d.dataB, f.data.fakeB>>
                 ELSE <<>>]

\* test: the exception, the data attributes after it and the returned list
test(n, d) ==
    IF d.dataB = -1
    THEN [err |-> "AttributeError", data |-> d, ret |-> <<>>]
    ELSE LET fakeA == Generator("genB2A", n.genB2A, d.dataB)
             d1 == [d EXCEPT !.fakeA = fakeA]
         IN  IF d.dataA = -1
             THEN [err |-> "AttributeError", data |-> d1, ret |-> <<>>]
             ELSE LET fakeB == Generator("genA2B", n.genA2B, d.dataA)
                  IN  [err |-> "none",
                       data |-> [d1 EXCEPT !.fakeB = fakeB],
                       ret |-> <<d.dataA, fakeA, d.dataB, fakeB>>]

Test ==
    /\ pc = "ready"
    /\ op' = "test"
    /\ log' = "none"
    /\ LET r == test(net, data)
       IN  /\ data' = r.data
           /\ ret' = r.ret
           /\ IF r.err = "none" THEN Returned ELSE Raised(r.err)
    /\ bpe' = 0
    /\ lr_t' = NoRate
    /\ queried' = <<>>
    /\ UNCHANGED <<run, argv, opt, disk, objs, tracked, net, optim,
                   learning_rate, global_step, trainable, buf, input, loss,
                   step0, saved,
                   tvars>>

\* total_epochs of _get_learning_rate: (global_step / 3) // batches_per_epoch
total_epochs(step, batches_per_epoch) ==
    (step \div UpdatesPerBatch) \div batches_per_epoch

\* _get_learning_rate, for niter_decay + 1 > 0:
\* opt.lr * max(0, 1.0 - max(0, total_epochs - niter) / float(niter_decay + 1))
get_learning_rate(o, step, batches_per_epoch) ==
    LET epochs == total_epochs(step, batches_per_epoch)
        den == o.niter_decay + 1
        learning_rate_lambda == Rat(den - Max(0, epochs - o.niter), den)
    IN  RatMul(o.lr, IF learning_rate_lambda[1] > 0
                     THEN learning_rate_lambda ELSE <<0, 1>>)

update_learning_rate(b) ==
    /\ pc = "ready"
    /\ op' = "update_learning_rate"
    /\ log' = "none"
    /\ bpe' = b
    /\ lr_t' = NoRate
    /\ queried' = <<>>
    /\ IF "global_step" \notin objs
       THEN /\ Raised("AttributeError")
            /\ UNCHANGED learning_rate
       ELSE IF opt.niter_decay + 1 = 0
       THEN /\ Raised("ZeroDivisionError")
            /\ UNCHANGED learning_rate
       ELSE /\ Returned
            /\ learning_rate' = get_learning_rate(opt, global_step, b)
    /\ ret' = <<>>
    /\ UNCHANGED <<run, argv, opt, disk, objs, tracked, net, optim,
                   global_step, trainable, buf, input, data, loss, step0,
                   saved,
                   tvars>>

\* checkpoint.save: the tracked objects' values, as one snapshot
Snapshot(tr, o, n, om, lr, step) ==
    [keys |-> tr, ngf |-> o.ngf, ndf |-> IF "discA" \in tr THEN o.ndf ELSE 0,
     net |-> [k \in DOMAIN NoNets |-> IF k \in tr THEN n[k] ELSE -1],
     optim |-> [k \in DOMAIN NoOptim |-> IF k \in tr THEN om[k] ELSE -1],
     learning_rate |-> IF "learning_rate" \in tr THEN lr ELSE NoRate,
     global_step |-> IF "global_step" \in tr THEN step ELSE -1]

save_model ==
    /\ pc = "ready"
    /\ op' = "save_model"
    /\ log' = SavedMsg
    /\ disk' = Snapshot(tracked, opt, net, optim, learning_rate, global_step)
    /\ saved' = [present |-> TRUE, training |-> opt.training,
                 ngf |-> opt.ngf, ndf |-> opt.ndf, net |-> net,
                 optim |-> optim, learning_rate |-> learning_rate,
                 global_step |-> global_step]
    /\ Returned
    /\ ret' = <<>>
    /\ bpe' = 0
    /\ lr_t' = NoRate
    /\ queried' = <<>>
    /\ UNCHANGED <<run, argv, opt, objs, tracked, net, optim,
                   learning_rate, global_step, trainable, buf, input, data,
                   loss, step0, tvars>>

\* ------------------------------------------------------ training iteration
\* backward_G: the exception and the loss attributes after it.  outcome is
\* what the loss functions do with opt.gan_mode.
backward_G(o, n, d, l, outcome) ==
    LET l1 == IF o.identity_lambda > 0
              THEN [l EXCEPT
                      !.set = @ \cup {"id_lossA", "id_lossB"},
                      !.id_lossA =
                          (identity_loss(d.dataA,
                                         Generator("genB2A", n.genB2A, d.dataA))
                           * o.cyc_lambda * o.identity_lambda) \div 10,
                      !.id_lossB =
                          (identity_loss(d.dataB,
                                         Generator("genA2B", n.genA2B, d.dataB))
                           * o.cyc_lambda * o.identity_lambda) \div 10]
              ELSE l
        l2 == [l1 EXCEPT
                 !.set = @ \cup {"genA2B_loss", "genB2A_loss",
                                 "cyc_lossA", "cyc_lossB"},
                 !.genA2B_loss =
                     generator_loss(Discriminator("discB", n.discB, d.dataB),
                                    Discriminator("discB", n.discB, d.fakeB),
                                    o.gan_mode),
                 !.genB2A_loss =
                     generator_loss(Discriminator("discA", n.discA, d.dataA),
                                    Discriminator("discA", n.discA, d.fakeA),
                                    o.gan_mode),
                 !.cyc_lossA =
                     cycle_loss(d.dataA, d.reconstructedA) * o.cyc_lambda,
                 !.cyc_lossB =
                     cycle_loss(d.dataB, d.reconstructedB) * o.cyc_lambda]
    IN  IF outcome # "ok"
        THEN [err |-> outcome, loss |-> l1]
        ELSE IF ~({"id_lossA", "id_lossB"} \subseteq l2.set)
        THEN [err |-> "AttributeError", loss |-> l2]
        ELSE [err |-> "none",
              loss |-> [l2 EXCEPT
                          !.set = @ \cup {"gen_loss"},
                          !.gen_loss = l2.genA2B_loss + l2.genB2A_loss
                                       + l2.cyc_lossA + l2.cyc_lossB
                                       + l2.id_lossA + l2.id_lossB]]

\* backward_D: the exception and the discriminator loss.  The gradient
\* penalty branch reads BATCH_SIZE, a name the module never defines.
backward_D(o, name, p, real, fake, outcome) ==
    LET pred_real == Discriminator(name, p, real)
        pred_fake == Discriminator(name, p, fake)
    IN  IF outcome # "ok"
        THEN [err |-> outcome, disc_loss |-> 0]
        ELSE IF o.gan_mode = "wgangp"
        THEN [err |-> "NameError", disc_loss |-> 0]
        ELSE [err |-> "none",
              disc_loss |-> discriminator_loss(pred_real, pred_fake,
                                               o.gan_mode)]

\* mutant: apply_gradients is called without global_step=
StepAfterApply_NoStep(step) == step

\* optimizer.apply_gradients(..., global_step=self.global_step)
StepAfterApply(step) == step + 1

\* the parameters and accumulators an update leaves behind
Updated(version) == version + 1

\* mutant: the optimizers are built on the number opt.lr
optimizer_learning_rate_Fixed(o, live) == o.lr

\* lines 25-26: both optimizers are built on the variable self.learning_rate,
\* whose value apply_gradients reads when it is called
optimizer_learning_rate(o, live) == live

\* lines 125-127: every discriminator layer is marked non-trainable
optimize_freeze ==
    /\ pc = "ready"
    /\ ("global_step" \in objs) => global_step < UpdatesPerBatch * MaxIters
    /\ op' = "optimize_parameters"
    /\ log' = "none"
    /\ IF "discA" \notin objs
       THEN /\ Raised("AttributeError")
            /\ UNCHANGED <<trainable, step0>>
       ELSE /\ err' = "none"
            /\ pc' = "gen_forward"
            /\ trainable' = [discA |-> FALSE, discB |-> FALSE]
            /\ step0' = global_step
    /\ ret' = <<>>
    /\ bpe' = 0
    /\ lr_t' = NoRate
    /\ queried' = <<>>
    /\ UNCHANGED <<run, argv, opt, disk, objs, tracked, net, optim,
                   learning_rate, global_step, buf, input, data, loss,
                   saved,
                   tvars>>

\* lines 129-133: forward() and backward_G() under the generator tape
optimize_gen_backward ==
    /\ pc = "gen_forward"
    /\ LET f == forward(net, data)
       IN  /\ data' = f.data
           /\ IF f.err # "none"
              THEN /\ Raised(f.err)
                   /\ UNCHANGED loss
              ELSE \E outcome \in LossModeOutcomes(opt.gan_mode) :
                     LET g == backward_G(opt, net, f.data, loss, outcome)
                     IN  /\ loss' = g.loss
                         /\ IF g.err # "none"
                            THEN Raised(g.err)
                            ELSE /\ err' = "none"
                                 /\ pc' = "gen_apply"
    /\ ret' = <<>>
    /\ bpe' = 0
    /\ lr_t' = NoRate
    /\ queried' = <<>>
    /\ UNCHANGED <<run, op, log, argv, opt, disk, objs, tracked, net,
                   optim, learning_rate, global_step, trainable, buf,
                   input, step0, saved,
                   tvars>>

\* lines 135-139: gen_optim.apply_gradients on both generators' variables
optimize_gen_apply ==
    /\ pc = "gen_apply"
    /\ pc' = "unfreeze"
    /\ net' = [net EXCEPT !.genA2B = Updated(@), !.genB2A = Updated(@)]
    /\ optim' = [optim EXCEPT !.gen_optim = Updated(@)]
    /\ global_step' = StepAfterApply(global_step)
    /\ ret' = <<>>
    /\ bpe' = 0
    /\ lr_t' = optimizer_learning_rate(opt, learning_rate)
    /\ queried' = <<>>
    /\ UNCHANGED <<run, op, err, log, argv, opt, disk, objs, tracked,
                   learning_rate, trainable, buf, input, data, loss, step0,
                   saved,
                   tvars>>

\* mutant: the discriminators are left frozen after the generator step
optimize_unfreeze_Skip ==
    /\ pc = "unfreeze"
    /\ pc' = "disc_forward"
    /\ ret' = <<>>
    /\ bpe' = 0
    /\ lr_t' = NoRate
    /\ queried' = <<>>
    /\ UNCHANGED <<run, op, err, log, argv, opt, disk, objs, tracked, net,
                   optim, learning_rate, global_step, trainable, buf, input,
                   data, loss, step0, saved, tvars>>

\* lines 141-143: every discriminator layer is marked trainable again
optimize_unfreeze ==
    /\ pc = "unfreeze"
    /\ pc' = "disc_forward"
    /\ trainable' = [discA |-> TRUE, discB |-> TRUE]
    /\ ret' = <<>>
    /\ bpe' = 0
    /\ lr_t' = NoRate
    /\ queried' = <<>>
    /\ UNCHANGED <<run, op, err, log, argv, opt, disk, objs, tracked, net,
                   optim, learning_rate, global_step, buf, input, data,
                   loss, step0, saved,
                   tvars>>

\* mutant: the discriminator step reuses the fakes of the generator step
optimize_disc_backward_StaleFakes ==
    /\ pc = "disc_forward"
    /\ LET f == [err |-> "none", data |-> data]
       IN  /\ data' = f.data
           /\ \E qa \in ImageHistoryBuffer_query(buf.discA_buffer,
                                                 opt.buffer_size,
                                                 f.data.fakeA),
                 outcome \in LossModeOutcomes(opt.gan_mode) :
                LET a == backward_D(opt, "discA", net.discA, f.data.dataA,
                                    qa[1], outcome)
                IN  IF a.err # "none"
                    THEN /\ Raised(a.err)
                         /\ buf' = [buf EXCEPT !.discA_buffer = qa[2]]
                         /\ queried' = <<<<"discA_buffer", f.data.fakeA>>>>
                         /\ UNCHANGED loss
                    ELSE \E qb \in ImageHistoryBuffer_query(buf.discB_buffer,
                                                            opt.buffer_size,
                                                            f.data.fakeB) :
                           LET b == backward_D(opt, "discB", net.discB,
                                               f.data.dataB, qb[1], outcome)
                           IN  /\ buf' = [discA_buffer |-> qa[2],
                                          discB_buffer |-> qb[2]]
                               /\ queried' =
                                      <<<<"discA_buffer", f.data.fakeA>>,
                                        <<"discB_buffer", f.data.fakeB>>>>
                               /\ loss' = [loss EXCEPT
                                             !.set = @ \cup {"discA_loss",
                                                             "discB_loss"},
                                             !.discA_loss = a.disc_loss,
                                             !.discB_loss = b.disc_loss]
                               /\ err' = "none"
                               /\ pc' = "discA_apply"
    /\ ret' = <<>>
    /\ bpe' = 0
    /\ lr_t' = NoRate
    /\ UNCHANGED <<run, op, log, argv, opt, disk, objs, tracked, net,
                   optim, learning_rate, global_step, trainable, input,
                   step0, saved,
                   tvars>>

\* lines 145-149: forward(), backward_discA() and backward_discB() under
\* the discriminator tape
optimize_disc_backward ==
    /\ pc = "disc_forward"
    /\ LET f == forward(net, data)
       IN  /\ data' = f.data
           /\ \E qa \in ImageHistoryBuffer_query(buf.discA_buffer,
                                                 opt.buffer_size,
                                                 f.data.fakeA),
                 outcome \in LossModeOutcomes(opt.gan_mode) :
                LET a == backward_D(opt, "discA", net.discA, f.data.dataA,
                                    qa[1], outcome)
                IN  IF a.err # "none"
                    THEN /\ Raised(a.err)
                         /\ buf' = [buf EXCEPT !.discA_buffer = qa[2]]
                         /\ queried' = <<<<"discA_buffer", f.data.fakeA>>>>
                         /\ UNCHANGED loss
                    ELSE \E qb \in ImageHistoryBuffer_query(buf.discB_buffer,
                                                            opt.buffer_size,
                                                            f.data.fakeB) :
                           LET b == backward_D(opt, "discB", net.discB,
                                               f.data.dataB, qb[1], outcome)
                           IN  /\ buf' = [discA_buffer |-> qa[2],
                                          discB_buffer |-> qb[2]]
                               /\ queried' =
                                      <<<<"discA_buffer", f.data.fakeA>>,
                                        <<"discB_buffer", f.data.fakeB>>>>
                               /\ loss' = [loss EXCEPT
                                             !.set = @ \cup {"discA_loss",
                                                             "discB_loss"},
                                             !.discA_loss = a.disc_loss,
                                             !.discB_loss = b.disc_loss]
                               /\ err' = "none"
                               /\ pc' = "discA_apply"
    /\ ret' = <<>>
    /\ bpe' = 0
    /\ lr_t' = NoRate
    /\ UNCHANGED <<run, op, log, argv, opt, disk, objs, tracked, net,
                   optim, learning_rate, global_step, trainable, input,
                   step0, saved,
                   tvars>>

\* lines 151-154: disc_optim.apply_gradients on discA's variables
optimize_discA_apply ==
    /\ pc = "discA_apply"
    /\ pc' = "discB_apply"
    /\ net' = [net EXCEPT !.discA = Updated(@)]
    /\ optim' = [optim EXCEPT !.disc_optim = Updated(@)]
    /\ global_step' = StepAfterApply(global_step)
    /\ ret' = <<>>
    /\ bpe' = 0
    /\ lr_t' = optimizer_learning_rate(opt, learning_rate)
    /\ queried' = <<>>
    /\ UNCHANGED <<run, op, err, log, argv, opt, disk, objs, tracked,
                   learning_rate, trainable, buf, input, data, loss, step0,
                   saved,
                   tvars>>

\* lines 155-156: disc_optim.apply_gradients on discB's variables; the call
\* returns
optimize_discB_apply ==
    /\ pc = "discB_apply"
    /\ pc' = "ready"
    /\ net' = [net EXCEPT !.discB = Updated(@)]
    /\ optim' = [optim EXCEPT !.disc_optim = Updated(@)]
    /\ global_step' = StepAfterApply(global_step)
    /\ ret' = <<>>
    /\ bpe' = 0
    /\ lr_t' = optimizer_learning_rate(opt, learning_rate)
    /\ queried' = <<>>
    /\ UNCHANGED <<run, op, err, log, argv, opt, disk, objs, tracked,
                   learning_rate, trainable, buf, input, data, loss, step0,
                   saved,
                   tvars>>

optimize_parameters ==
    \/ optimize_freeze
    \/ optimize_gen_backward
    \/ optimize_gen_apply
    \/ optimize_unfreeze
    \/ optimize_disc_backward
    \/ optimize_discA_apply
    \/ optimize_discB_apply

\* ------------------------------------------------------------ the program
Next ==
    \/ Parse
    \/ Construct
    \/ Restart
    \/ set_input
    \/ Forward
    \/ Test
    \/ \E b \in 1..MaxBpe : update_learning_rate(b)
    \/ save_model
    \/ optimize_parameters

Spec == Init /\ [][Next]_vars

\* ------------------------------------ the learning rate over a training run
\* largest --niter and --niter_decay of the command lines of SpecRate
MaxRateNiter == 1

MaxRateNiterDecay == 1

\* --lr values: zero, the default, and a large one
RateLrs == {<<0, 1>>, DefaultLr, <<1, 2>>}

RateArgv ==
    {[BaseArgv EXCEPT !.lr = l, !.niter = n, !.niter_decay = d] :
        l \in RateLrs, n \in 0..MaxRateNiter, d \in 0..MaxRateNiterDecay}

\* a training process started on a command line of RateArgv with no
\* checkpoint on disk, after its first set_input
InitRate ==
    /\ run = 1
    /\ pc = "ready"
    /\ op = "set_input"
    /\ err = "none"
    /\ log = "none"
    /\ argv \in RateArgv
    /\ opt = parse(argv)
    /\ disk = NoCkpt
    /\ saved = NoSaved
    /\ objs = ConstructedObjects(TRUE)
    /\ tracked = TrackedObjects(TRUE)
    /\ net = FreshModel(opt).net
    /\ optim = FreshModel(opt).optim
    /\ learning_rate = FreshModel(opt).learning_rate
    /\ global_step = FreshModel(opt).global_step
    /\ trainable = NoTrainable
    /\ buf = NoBuffers
    /\ input = [A |-> MaxBatches - 1, B |-> MaxBatches - 1]
    /\ data = [NoData EXCEPT !.dataA = BatchA(MaxBatches),
                             !.dataB = BatchB(MaxBatches)]
    /\ loss = NoLoss
    /\ ret = <<>>
    /\ step0 = -1
    /\ bpe = 0
    /\ lr_t = NoRate
    /\ queried = <<>>
    /\ TrainIdleInit

\* the driver's loop on one batch: optimize_parameters and, at any
\* boundary between two iterations, update_learning_rate
NextRate ==
    \/ optimize_parameters
    \/ \E b \in 1..MaxBpe : update_learning_rate(b)

SpecRate == InitRate /\ [][NextRate]_vars

\* --------------------------------------------- the script's train() loop
\* src/cyclegan.py, lines 177-248: four networks, one optimizer each, all
\* four sharing the global step; the checkpoint is written in the loop body.

\* a checkpoint an earlier run of the script left after its first iteration
ScriptEarlierCkpt ==
    [present |-> TRUE,
     net |-> [genA2B |-> 1, genB2A |-> 1, discA |-> 1, discB |-> 1],
     optim |-> [discA_opt |-> 1, discB_opt |-> 1, genA2B_opt |-> 1,
                genB2A_opt |-> 1],
     optimizer_step |-> 4]

InitTrain ==
    /\ run = 1
    /\ pc = "boot"
    /\ op = "boot"
    /\ err = "none"
    /\ log = "none"
    /\ argv = BaseArgv
    /\ opt = argv
    /\ disk = NoCkpt
    /\ objs = {}
    /\ tracked = {}
    /\ net = NoNets
    /\ optim = NoOptim
    /\ learning_rate = NoRate
    /\ global_step = -1
    /\ trainable = NoTrainable
    /\ buf = NoBuffers
    /\ input = [A |-> MaxBatches, B |-> MaxBatches]
    /\ data = NoData
    /\ loss = NoLoss
    /\ ret = <<>>
    /\ step0 = -1
    /\ bpe = 0
    /\ lr_t = NoRate
    /\ queried = <<>>
    /\ saved = NoSaved
    /\ t_pc = "start"
    /\ t_epoch = 0
    /\ t_step = 0
    /\ t_input \in [A : 0..MaxScriptBatches, B : 0..MaxScriptBatches]
    /\ t_global_step = 0
    /\ t_net = [genA2B |-> 0, genB2A |-> 0, discA |-> 0, discB |-> 0]
    /\ t_optim = [discA_opt |-> 0, discB_opt |-> 0, genA2B_opt |-> 0,
                  genB2A_opt |-> 0]
    /\ t_buf = NoBuffers
    /\ t_ckpt \in {NoScriptCkpt, ScriptEarlierCkpt}
    /\ t_saved = 0
    /\ t_log = 0
    /\ t_args \in [epochs : 1..MaxEpochs, batches_per_epoch : 1..MaxBpe]

\* lines 188-196: restore_from_checkpoint, the iterators, the buffers
train_restore ==
    /\ t_pc = "start"
    /\ t_pc' = "loop"
    /\ IF t_ckpt.present
       THEN /\ t_net' = t_ckpt.net
            /\ t_optim' = t_ckpt.optim
            /\ t_global_step' = t_ckpt.optimizer_step
       ELSE UNCHANGED <<t_net, t_optim, t_global_step>>
    /\ UNCHANGED <<mvars, t_epoch, t_step, t_input, t_buf, t_ckpt, t_saved,
                   t_log, t_args>>

\* whether next(train_datasetA); next(train_datasetB) raises OutOfRangeError
Exhausted(it) == it.A = 0 \/ it.B = 0

\* the iterators after the two next() calls of lines 203-204
AfterFetch(it) ==
    IF it.A = 0 THEN it
    ELSE IF it.B = 0 THEN [it EXCEPT !.A = @ - 1]
    ELSE [A |-> it.A - 1, B |-> it.B - 1]

\* mutant: the except clause returns from train() instead of breaking
after_exhaustion_Return(epoch, step) == [epoch |-> t_args.epochs, step |-> 0]

\* lines 205-207: the except clause prints and breaks out of the batch loop
after_exhaustion(epoch, step) == [epoch |-> epoch + 1, step |-> 0]

\* the loop counters after a completed body
after_body(epoch, step, batches_per_epoch) ==
    IF step + 1 < batches_per_epoch
    THEN [epoch |-> epoch, step |-> step + 1]
    ELSE [epoch |-> epoch + 1, step |-> 0]

\* lines 200-247: one pass of the batch loop's body
train_iteration ==
    /\ t_pc = "loop"
    /\ t_input' = AfterFetch(t_input)
    /\ IF Exhausted(t_input)
       THEN /\ t_log' = t_log + 1
            /\ LET c == after_exhaustion(t_epoch, t_step)
               IN  /\ t_epoch' = c.epoch
                   /\ t_step' = c.step
                   /\ t_pc' = IF c.epoch < t_args.epochs THEN "loop" ELSE "done"
            /\ UNCHANGED <<t_global_step, t_net, t_optim, t_buf, t_ckpt,
                           t_saved>>
       ELSE LET trainA == BatchA(t_input.A)
                trainB == BatchB(t_input.B)
                genA2B_output == Generator("genA2B", t_net.genA2B, trainA)
                genB2A_output == Generator("genB2A", t_net.genB2A, trainB)
                discA_fake_output ==
                    Discriminator("discA", t_net.discA, genB2A_output)
                discB_fake_output ==
                    Discriminator("discB", t_net.discB, genA2B_output)
                nets == [k \in DOMAIN t_net |-> Updated(t_net[k])]
                opts == [k \in DOMAIN t_optim |-> Updated(t_optim[k])]
                step == StepAfterApply(StepAfterApply(StepAfterApply(
                            StepAfterApply(t_global_step))))
                c == after_body(t_epoch, t_step, t_args.batches_per_epoch)
            IN  /\ \E qa \in ImageHistoryBuffer_query(t_buf.discA_buffer,
                                                      ScriptBufferSize,
                                                      discA_fake_output),
                      qb \in ImageHistoryBuffer_query(t_buf.discB_buffer,
                                                      ScriptBufferSize,
                                                      discB_fake_output) :
                     t_buf' = [discA_buffer |-> qa[2], discB_buffer |-> qb[2]]
                /\ t_net' = nets
                /\ t_optim' = opts
                /\ t_global_step' = step
                /\ t_ckpt' = [present |-> TRUE, net |-> nets, optim |-> opts,
                              optimizer_step |-> step]
                /\ t_saved' = t_saved + 1
                /\ t_epoch' = c.epoch
                /\ t_step' = c.step
                /\ t_pc' = IF c.epoch < t_args.epochs THEN "loop" ELSE "done"
                /\ UNCHANGED t_log
    /\ UNCHANGED <<mvars, t_args>>

NextTrain ==
    \/ train_restore
    \/ train_iteration

SpecTrain == InitTrain /\ [][NextTrain]_vars

\* ------------------------------------------- the learning-rate schedule
\* the default command line of train.py, with a one-image history buffer
DefaultArgv ==
    [BaseArgv EXCEPT !.niter = DefaultNiter, !.niter_decay = DefaultNiterDecay]

\* the state of a process started on DefaultArgv with no checkpoint on disk
\* that has called set_input once and optimize_parameters k times, every
\* buffer query answering with the fresh image
AllNets(v) == [genA2B |-> v, genB2A |-> v, discA |-> v, discB |-> v]

TrainedData(k) ==
    LET d0 == [NoData EXCEPT !.dataA = BatchA(MaxBatches),
                             !.dataB = BatchB(MaxBatches)]
    IN  IF k = 0 THEN d0 ELSE forward(AllNets(k), d0).data

TrainedLoss(o, k) ==
    IF k = 0 THEN NoLoss
    ELSE LET d1 == TrainedData(k - 1)
             f1 == IF k = 1 THEN forward(AllNets(0), d1).data ELSE d1
             g == backward_G(o, AllNets(k - 1), f1, NoLoss, "ok").loss
             d2 == TrainedData(k)
         IN  [g EXCEPT
                !.set = @ \cup {"discA_loss", "discB_loss"},
                !.discA_loss = backward_D(o, "discA", k - 1, d2.dataA,
                                          d2.fakeA, "ok").disc_loss,
                !.discB_loss = backward_D(o, "discB", k - 1, d2.dataB,
                                          d2.fakeB, "ok").disc_loss]

InitLR ==
    /\ run = 1
    /\ pc = "ready"
    /\ err = "none"
    /\ argv = DefaultArgv
    /\ opt = parse(argv)
    /\ disk = NoCkpt
    /\ saved = NoSaved
    /\ objs = ConstructedObjects(TRUE)
    /\ tracked = TrackedObjects(TRUE)
    /\ learning_rate = opt.lr
    /\ trainable = NoTrainable
    /\ input = [A |-> MaxBatches - 1, B |-> MaxBatches - 1]
    /\ ret = <<>>
    /\ bpe = 0
    /\ lr_t = NoRate
    /\ queried = <<>>
    /\ \E k \in 0..MaxLRIters :
         /\ op = IF k = 0 THEN "set_input" ELSE "optimize_parameters"
         /\ log = "none"
         /\ net = AllNets(k)
         /\ optim = [gen_optim |-> k, disc_optim |-> 2 * k]
         /\ global_step = UpdatesPerBatch * k
         /\ step0 = IF k = 0 THEN -1 ELSE UpdatesPerBatch * (k - 1)
         /\ data = TrainedData(k)
         /\ loss = TrainedLoss(opt, k)
         /\ buf = IF k = 0 THEN NoBuffers
                  ELSE [discA_buffer |-> <<TrainedData(k).fakeA>>,
                        discB_buffer |-> <<TrainedData(k).fakeB>>]
    /\ TrainIdleInit

NextLR == \E b \in 1..MaxBpe : update_learning_rate(b)

SpecLR == InitLR /\ [][NextLR]_vars

\* ================================================================ claims

\* C1 (checked under SpecLR): with lr=0.0002, niter=100, niter_decay=100
\* and epoch = floor((global_step / 3) / batches_per_epoch), the rate that
\* update_learning_rate assigns is 0.0002 for the epochs 0..99, lies between
\* 0 and 0.0002 while it decreases, and is exactly 0 at epoch 200 and at
\* every later epoch.
C1_Schedule ==
    (/\ op = "update_learning_rate"
     /\ err = "none"
     /\ opt.lr = DefaultLr
     /\ opt.niter = 100
     /\ opt.niter_decay = 100)
    => LET epoch == (global_step \div 3) \div bpe
       IN  /\ (epoch \in 0..99) => learning_rate = DefaultLr
           /\ (epoch > 99 /\ epoch < 200)
              => (learning_rate[1] > 0 /\ RatLeq(learning_rate, DefaultLr))
           /\ (epoch >= 200) => learning_rate = <<0, 1>>

\* C2: when identity_lambda is 0, backward_G completes, on the first
\* iteration of a run as on any other, and the generator loss is the sum
\* genA2B_loss + genB2A_loss + cyc_lossA + cyc_lossB.
C2_IdentityZero ==
    (/\ opt.training
     /\ opt.identity_lambda = 0
     /\ op = "optimize_parameters"
     /\ "cyc_lossB" \in loss.set)
    => /\ err = "none"
       /\ "gen_loss" \in loss.set
       /\ loss.gen_loss = loss.genA2B_loss + loss.genB2A_loss
                          + loss.cyc_lossA + loss.cyc_lossB

\* C3: the global step rises by one with each optimizer application and by
\* exactly 3 over a completed optimize_parameters; parse, set_input,
\* forward, test, update_learning_rate and save_model leave it alone; and
\* within one process it never decreases (only construction, which creates
\* and restores it, and the optimizer change it).
C3_GlobalStep ==
    [][ /\ (pc = "discB_apply" /\ pc' = "ready")
           => global_step' = step0 + 3
        /\ (pc \in {"gen_apply", "discA_apply", "discB_apply"})
           => global_step' = global_step + 1
        /\ (op' \in {"parse", "set_input", "forward", "test",
                     "update_learning_rate", "save_model"})
           => global_step' = global_step
        /\ (global_step' # global_step)
           => \/ op' \in {"init", "boot"}
              \/ pc \in {"gen_apply", "discA_apply", "discB_apply"}
        /\ (run' = run) => global_step' >= global_step
      ]_vars

C3_Witness ==
    /\ pc = "ready"
    /\ op = "optimize_parameters"
    /\ err = "none"
    /\ step0 = 3
    /\ global_step = 6

\* C4: a training process constructed with load_checkpoint on a save_dir
\* whose latest checkpoint a training process of the same network shapes
\* wrote restores without error, and then holds the global step, the
\* learning rate, the parameters of all four networks and the state of
\* both optimizers exactly as they were at that save_model, so that its
\* forward pass gives the same outputs for the same batches.
C4_RoundTrip ==
    (/\ op = "init"
     /\ opt.training
     /\ opt.load_checkpoint
     /\ saved.present
     /\ saved.training
     /\ saved.ngf = opt.ngf
     /\ saved.ndf = opt.ndf)
    => /\ err = "none"
       /\ log = RestoredMsg
       /\ global_step = saved.global_step
       /\ learning_rate = saved.learning_rate
       /\ net = saved.net
       /\ optim = saved.optim
       /\ \A a, b \in 1..(2 * MaxBatches) :
            LET d == [NoData EXCEPT !.dataA = a, !.dataB = b]
            IN  forward(net, d) = forward(saved.net, d)

C4_Witness ==
    /\ op = "init"
    /\ run = 2
    /\ opt.training
    /\ log = RestoredMsg
    /\ saved.training
    /\ global_step = 6
    /\ net = AllNets(2)
    /\ optim = [gen_optim |-> 2, disc_optim |-> 4]
    /\ learning_rate # opt.lr

\* C5: an unsupported gan_mode, a non-positive buffer_size or a
\* non-positive niter / niter_decay is rejected before any network,
\* optimizer or buffer is constructed, and no iteration runs with it.
C5_InvalidRejected ==
    InvalidConfig(argv)
    => /\ objs = {}
       /\ pc \in {"boot", "parsed", "crashed"}

\* C6: when a restore is asked for and the latest checkpoint holds a
\* tracked network of another shape, construction ends in the shape error,
\* which is neither the line of a successful restore nor that of a missing
\* checkpoint; and a process that has ended in an error runs nothing more.
C6_MismatchFatal ==
    [][ /\ (/\ op' = "init"
            /\ ((~opt'.training) \/ opt'.load_checkpoint)
            /\ disk'.keys # {}
            /\ \/ disk'.ngf # opt'.ngf
               \/ (/\ opt'.training
                   /\ "discA" \in disk'.keys
                   /\ disk'.ndf # opt'.ndf))
           => /\ pc' = "crashed"
              /\ err' = "ShapeMismatchError"
              /\ log' \notin {RestoredMsg, FailedMsg}
        /\ (pc = "crashed") => (pc' = "boot" /\ run' = run + 1)
      ]_vars

C6_Witness ==
    /\ op = "init"
    /\ pc = "crashed"
    /\ err = "ShapeMismatchError"
    /\ opt.training
    /\ opt.load_checkpoint
    /\ "discA" \in disk.keys
    /\ disk.ngf # opt.ngf

\* the values every attribute holds when nothing was restored
C7_Fresh ==
    /\ net.genA2B = 0
    /\ net.genB2A = 0
    /\ net.discA = (IF opt.training THEN 0 ELSE -1)
    /\ net.discB = (IF opt.training THEN 0 ELSE -1)
    /\ optim = (IF opt.training
                THEN [gen_optim |-> 0, disc_optim |-> 0] ELSE NoOptim)
    /\ learning_rate = (IF opt.training THEN opt.lr ELSE NoRate)
    /\ global_step = (IF opt.training THEN 0 ELSE -1)

\* C7: a restore asked for (inference, or training with load_checkpoint)
\* on a directory without checkpoint raises nothing, leaves every value
\* freshly initialized and prints a line other than that of a successful
\* restore; training without load_checkpoint attempts no restore (neither
\* line is printed, whatever the directory holds).
C7_MissingCheckpoint ==
    /\ (/\ op = "init"
        /\ ((~opt.training) \/ opt.load_checkpoint)
        /\ disk.keys = {})
       => /\ err = "none"
          /\ pc = "ready"
          /\ log = FailedMsg
          /\ log # RestoredMsg
          /\ C7_Fresh
    /\ (/\ op = "init"
        /\ opt.training
        /\ ~opt.load_checkpoint)
       => /\ err = "none"
          /\ pc = "ready"
          /\ log = "none"
          /\ C7_Fresh

C7_Witness ==
    /\ op = "init"
    /\ opt.training
    /\ opt.load_checkpoint
    /\ disk.keys = {}
    /\ pc = "ready"
    /\ log = FailedMsg

\* C8: discriminators, optimizers, learning rate, global step and history
\* buffers exist if and only if opt.training; the checkpoint object tracks
\* the two generators in inference mode and the four networks, both
\* optimizers, the learning rate and the global step in training mode; and
\* an inference process restores a checkpoint written in training mode
\* without error, taking the two generators' parameters and nothing else.
C8_ModeDependent ==
    (pc \notin {"boot", "parsed"})
    => /\ {"genA2B", "genB2A"} \subseteq objs
       /\ \A k \in {"discA", "discB", "disc_optim", "gen_optim",
                    "learning_rate", "global_step", "discA_buffer",
                    "discB_buffer"} : (k \in objs) <=> opt.training
       /\ tracked = (IF opt.training
                     THEN {"discA", "discB", "genA2B", "genB2A", "disc_optim",
                           "gen_optim", "learning_rate", "global_step"}
                     ELSE {"genA2B", "genB2A"})
       /\ (/\ op = "init"
           /\ ~opt.training
           /\ "discA" \in disk.keys
           /\ disk.ngf = opt.ngf)
          => /\ err = "none"
             /\ log = RestoredMsg
             /\ net.genA2B = disk.net.genA2B
             /\ net.genB2A = disk.net.genB2A
             /\ net.discA = -1
             /\ net.discB = -1
             /\ optim = NoOptim
             /\ learning_rate = NoRate
             /\ global_step = -1

C8_Witness ==
    /\ op = "init"
    /\ ~opt.training
    /\ log = RestoredMsg
    /\ "discA" \in disk.keys
    /\ disk.ndf # opt.ndf
    /\ disk.net.discA = 2
    /\ net.genA2B = 2
    /\ net.discA = -1

C10_TestFrame ==
    [][ (op' = "test")
        => /\ UNCHANGED <<net, optim, learning_rate, global_step, buf,
                          trainable, loss, disk, input>>
           /\ data'.dataA = data.dataA
           /\ data'.dataB = data.dataB
           /\ data'.reconstructedA = data.reconstructedA
           /\ data'.reconstructedB = data.reconstructedB
           /\ (err' = "none")
              => /\ data'.fakeA = Generator("genB2A", net.genB2A, data.dataB)
                 /\ data'.fakeB = Generator("genA2B", net.genA2B, data.dataA)
                 /\ ret' = <<data.dataA, data'.fakeA, data.dataB, data'.fakeB>>
      ]_vars

C10_Witness ==
    /\ op = "test"
    /\ err = "none"
    /\ Len(ret) = 4
    /\ opt.training
    /\ global_step = 6
    /\ buf.discA_buffer # <<>>
    /\ ret[2] # -1

\* C11: in optimize_parameters every layer of discA and discB is marked
\* non-trainable before the generator forward pass and stays so until the
\* generator optimizer has been applied; that update changes the
\* parameters of genA2B and genB2A and the generator optimizer only, not
\* the discriminators' parameters nor the discriminator optimizer; every
\* discriminator layer is trainable again before the forward pass of the
\* discriminator step and when optimize_parameters returns.
C11_GeneratorIsolation ==
    [][ /\ (pc' \in {"gen_forward", "gen_apply", "unfreeze"})
           => trainable' = [discA |-> FALSE, discB |-> FALSE]
        /\ (pc = "gen_apply")
           => /\ pc' = "unfreeze"
              /\ net'.genA2B # net.genA2B
              /\ net'.genB2A # net.genB2A
              /\ optim'.gen_optim # optim.gen_optim
              /\ net'.discA = net.discA
              /\ net'.discB = net.discB
              /\ optim'.disc_optim = optim.disc_optim
        /\ (pc' \in {"disc_forward", "discA_apply", "discB_apply"})
           => trainable' = [discA |-> TRUE, discB |-> TRUE]
        /\ (pc = "discB_apply")
           => /\ pc' = "ready"
              /\ trainable' = [discA |-> TRUE, discB |-> TRUE]
      ]_vars

C11_Witness ==
    /\ pc = "ready"
    /\ op = "optimize_parameters"
    /\ err = "none"
    /\ global_step = step0 + 3
    /\ net.genA2B = 2
    /\ net.discA = 2
    /\ trainable = [discA |-> TRUE, discB |-> TRUE]

\* C12: one training iteration runs in strict sequence.  The generator
\* optimizer has been applied when the forward pass of the discriminator
\* step runs; that pass recomputes fakeA and fakeB with the updated
\* generators; then discA_buffer.query is called once on the fresh fakeA
\* and discB_buffer.query once on the fresh fakeB, and no buffer is queried
\* during the generator step; then discA's update and then discB's update
\* are applied; the discriminator step changes no generator parameter and
\* no state of the generator optimizer.
C12_Sequencing ==
    [][ /\ (pc = "disc_forward")
           => /\ global_step = step0 + 1
              /\ data'.fakeA = Generator("genB2A", net.genB2A, data.dataB)
              /\ data'.fakeB = Generator("genA2B", net.genA2B, data.dataA)
              /\ data'.fakeA # data.fakeA
              /\ data'.fakeB # data.fakeB
              /\ UNCHANGED <<net, optim, global_step>>
              /\ (err' = "none")
                 => /\ pc' = "discA_apply"
                    /\ queried' = <<<<"discA_buffer", data'.fakeA>>,
                                    <<"discB_buffer", data'.fakeB>>>>
                    /\ \E q \in ImageHistoryBuffer_query(buf.discA_buffer,
                                                          opt.buffer_size,
                                                          data'.fakeA) :
                          buf'.discA_buffer = q[2]
                    /\ \E q \in ImageHistoryBuffer_query(buf.discB_buffer,
                                                          opt.buffer_size,
                                                          data'.fakeB) :
                          buf'.discB_buffer = q[2]
        /\ (pc' \in {"gen_forward", "gen_apply", "unfreeze", "disc_forward"})
           => /\ queried' = <<>>
              /\ buf' = buf
        /\ (pc = "discA_apply")
           => /\ pc' = "discB_apply"
              /\ net'.discA # net.discA
              /\ net'.discB = net.discB
              /\ global_step' = step0 + 2
        /\ (pc = "discB_apply")
           => /\ pc' = "ready"
              /\ net'.discB # net.discB
              /\ net'.discA = net.discA
              /\ global_step' = step0 + 3
        /\ (pc \in {"disc_forward", "discA_apply", "discB_apply"})
           => /\ net'.genA2B = net.genA2B
              /\ net'.genB2A = net.genB2A
              /\ optim'.gen_optim = optim.gen_optim
      ]_vars

C12_Witness ==
    /\ pc = "discA_apply"
    /\ err = "none"
    /\ global_step = 4
    /\ queried = <<<<"discA_buffer", data.fakeA>>,
                   <<"discB_buffer", data.fakeB>>>>
    /\ data.fakeA = Generator("genB2A", 2, data.dataB)
    /\ buf.discA_buffer # <<>>
    /\ net.discA = 1

\* C13: with gan_mode = 'wgangp' the discriminator step raises nothing:
\* backward_D returns a loss for discA and for discB, both discriminator
\* updates are applied and optimize_parameters ends with the global step
\* raised by 3, as in the other modes.
C13_WganGP ==
    (/\ opt.training
     /\ opt.gan_mode = "wgangp"
     /\ data.dataA # -1
     /\ data.dataB # -1
     /\ op = "optimize_parameters"
     /\ pc \in {"ready", "crashed"})
    => /\ err = "none"
       /\ pc = "ready"
       /\ {"discA_loss", "discB_loss"} \subseteq loss.set
       /\ global_step = step0 + 3

\* C14 (checked under SpecRate): for every configuration with lr >= 0,
\* niter >= 0 and niter_decay >= 0 and every reachable global step, the
\* value update_learning_rate assigns lies in [0, opt.lr] and is not above
\* the value it assigns at any lower global step (for the same
\* batches_per_epoch); and every gradient application, of the generator
\* optimizer and of the discriminator optimizer alike, reads the value the
\* one learning-rate variable holds at that moment and leaves it as it is.
C14_LearningRate ==
    [][ /\ (/\ op' = "update_learning_rate"
            /\ opt.training
            /\ RatLeq(<<0, 1>>, opt.lr)
            /\ opt.niter >= 0
            /\ opt.niter_decay >= 0)
           => /\ err' = "none"
              /\ RatLeq(<<0, 1>>, learning_rate')
              /\ RatLeq(learning_rate', opt.lr)
              /\ \A s \in 0..global_step :
                    RatLeq(learning_rate', get_learning_rate(opt, s, bpe'))
        /\ (pc \in {"gen_apply", "discA_apply", "discB_apply"})
           => /\ lr_t' = learning_rate
              /\ learning_rate' = learning_rate
      ]_vars

C14_Witness ==
    /\ pc = "ready"
    /\ op = "optimize_parameters"
    /\ global_step = 6
    /\ opt.lr = DefaultLr
    /\ opt.niter = 0
    /\ opt.niter_decay = 1
    /\ learning_rate = <<1, 10000>>
    /\ lr_t = learning_rate

====
